---------------------------- MODULE Spec2Model ----------------------------
(***************************************************************************)
(* Model of rumqttd's router session state and access control:             *)
(*   - Connection::topic_alias_max and BrokerAliases (connection.rs),      *)
(*     over the slab free-list pool it allocates aliases from;             *)
(*   - AclRule::matches / substitute_variables and Acl's Display/FromStr   *)
(*     (acl.rs).                                                           *)
(* Strings are sequences of one-character strings; Option values are       *)
(* sequences of length 0 (None) or 1 (Some).                               *)
(***************************************************************************)
EXTENDS Integers, Sequences, FiniteSets, TLC

\* ------------------------------------------------------------------ bounds
\* largest topic_alias_max a client announces
MaxAliasMax == 3
\* number of distinct topic names
NumTopics == 4
\* longest run of set_new_alias calls counted on a fresh BrokerAliases
MaxCalls == 5

Topics == 1..NumTopics

\* u16 arithmetic: alias_to_use as u16
U16 == 65536

None == <<>>
Some(x) == <<x>>
IsSome(o) == Len(o) = 1
Unwrap(o) == o[1]

\* ------------------------------------------------------------- slab::Slab
\* Slab<()>: entries is the Vec<Entry>, index i of the code is entries[i+1];
\* next is the head of the free list (== entries.len() when none is vacant).
Occupied == [occ |-> TRUE, nxt |-> 0]
Vacant(n) == [occ |-> FALSE, nxt |-> n]

SlabNew == [entries |-> <<>>, next |-> 0]

\* faulty variant: insert always pushes at the end and ignores the free list
SlabInsertAtEnd(s) ==
    [key |-> Len(s.entries),
     slab |-> [entries |-> Append(s.entries, Occupied), next |-> s.next]]

\* Slab::insert: the key is the head of the free list
SlabInsert(s) ==
    LET key == s.next
    IN  IF key = Len(s.entries)
        THEN [key |-> key,
              slab |-> [entries |-> Append(s.entries, Occupied),
                        next |-> key + 1]]
        ELSE [key |-> key,
              slab |-> [entries |-> [s.entries EXCEPT ![key + 1] = Occupied],
                        next |-> s.entries[key + 1].nxt]]

\* Slab::remove: panics ("invalid key") unless the key is occupied
SlabRemoveOk(s, key) == key < Len(s.entries) /\ s.entries[key + 1].occ

SlabRemove(s, key) ==
    IF SlabRemoveOk(s, key)
    THEN [entries |-> [s.entries EXCEPT ![key + 1] = Vacant(s.next)],
          next |-> key]
    ELSE s

\* the occupied keys of a slab
SlabKeys(s) == {i \in 0..(Len(s.entries) - 1) : s.entries[i + 1].occ}

\* ------------------------------------------------------------ BrokerAliases
\* map is broker_topic_aliases (HashMap<Filter, u16>), slab is used_aliases
MapInsert(m, k, v) == [t \in (DOMAIN m) \cup {k} |-> IF t = k THEN v ELSE m[t]]
MapRemove(m, k) == [t \in (DOMAIN m) \ {k} |-> m[t]]
MapValues(m) == {m[t] : t \in DOMAIN m}
EmptyMap == [t \in {} |-> 0]

\* faulty variant: slot 0 is not reserved
BrokerAliasesNewNoReserve(max) ==
    [map |-> EmptyMap, slab |-> SlabNew, max |-> max]

BrokerAliasesNew(max) ==
    [map |-> EmptyMap, slab |-> SlabInsert(SlabNew).slab, max |-> max]

\* faulty variant: the overflow test is off by one (>= instead of >)
SetNewAliasOffByOne(b, topic) ==
    LET ins == SlabInsert(b.slab)
    IN  IF ins.key > b.max + 1
        THEN [bta |-> [b EXCEPT !.slab = SlabRemove(ins.slab, ins.key)],
              ret |-> None, panic |-> ~SlabRemoveOk(ins.slab, ins.key)]
        ELSE [bta |-> [b EXCEPT !.slab = ins.slab,
                                !.map = MapInsert(b.map, topic, ins.key % U16)],
              ret |-> Some(ins.key % U16), panic |-> FALSE]

\* faulty variant: the overflow attempt is not rolled back
SetNewAliasNoRollback(b, topic) ==
    LET ins == SlabInsert(b.slab)
    IN  IF ins.key > b.max
        THEN [bta |-> [b EXCEPT !.slab = ins.slab], ret |-> None, panic |-> FALSE]
        ELSE [bta |-> [b EXCEPT !.slab = ins.slab,
                                !.map = MapInsert(b.map, topic, ins.key % U16)],
              ret |-> Some(ins.key % U16), panic |-> FALSE]

\* BrokerAliases::set_new_alias: the new state, the returned Option<u16>, and
\* whether Slab::remove panicked
SetNewAliasCall(b, topic) ==
    LET ins == SlabInsert(b.slab)
    IN  IF ins.key > b.max
        THEN [bta |-> [b EXCEPT !.slab = SlabRemove(ins.slab, ins.key)],
              ret |-> None, panic |-> ~SlabRemoveOk(ins.slab, ins.key)]
        ELSE [bta |-> [b EXCEPT !.slab = ins.slab,
                                !.map = MapInsert(b.map, topic, ins.key % U16)],
              ret |-> Some(ins.key % U16), panic |-> FALSE]

\* BrokerAliases::remove_alias
RemoveAliasCall(b, topic) ==
    IF topic \in DOMAIN b.map
    THEN [bta |-> [b EXCEPT !.map = MapRemove(b.map, topic),
                            !.slab = SlabRemove(b.slab, b.map[topic])],
          panic |-> ~SlabRemoveOk(b.slab, b.map[topic])]
    ELSE [bta |-> b, panic |-> FALSE]

\* BrokerAliases::get_alias
GetAliasCall(b, topic) ==
    IF topic \in DOMAIN b.map THEN Some(b.map[topic]) ELSE None

\* faulty variant: a max of 0 clears the session's BrokerAliases
TopicAliasMaxClearing(cur, max) ==
    IF max > 0 THEN Some(BrokerAliasesNew(max)) ELSE None

\* Connection::topic_alias_max: the new value of self.broker_topic_aliases
TopicAliasMaxCall(cur, max) ==
    IF max > 0 THEN Some(BrokerAliasesNew(max)) ELSE cur

\* ------------------------------------------------------------------- state
VARIABLES
    bta,       \* Connection.broker_topic_aliases: Option<BrokerAliases>
    last,      \* the last call: its operation, argument and returned Option
    fresh,     \* since BrokerAliases::new only set_new_alias on unaliased topics
    nsets,     \* number of set_new_alias calls of that fresh run
    freed,     \* slots given back by remove_alias and not issued again, oldest first
    panicked   \* a call panicked

aliasVars == <<bta, last, fresh, nsets, freed, panicked>>

VARIABLES
    mrule,     \* AclRule: the rule string of a matches call
    mpath,     \* the topic or filter it is matched against
    mcall      \* the call made on them and its result, None before the call

matchVars == <<mrule, mpath, mcall>>

VARIABLES
    srule,     \* AclRule: the rule substitute_variables is called on
    svars,     \* the ordered (name, value) pairs passed to it
    sres       \* the AclRule it returned, None before the call

substVars == <<srule, svars, sres>>

VARIABLES
    acl,       \* an Acl value
    atext,     \* the text Display produced for it, None before
    aparsed    \* the result of FromStr on that text, None before

aclVars == <<acl, atext, aparsed>>

vars == <<aliasVars, matchVars, substVars, aclVars>>
notAlias == <<matchVars, substVars, aclVars>>
notMatch == <<aliasVars, substVars, aclVars>>
notSubst == <<aliasVars, matchVars, aclVars>>
notAcl == <<aliasVars, matchVars, substVars>>

Call(op, arg, ret) == [op |-> op, arg |-> arg, ret |-> ret]

\* Connection::new: broker_topic_aliases is None
InitAlias ==
    /\ bta = None
    /\ last = Call("new", 0, None)
    /\ fresh = FALSE
    /\ nsets = 0
    /\ freed = <<>>
    /\ panicked = FALSE

\* no matching call is under way
IdleMatch == mrule = <<>> /\ mpath = <<>> /\ mcall = None

\* no substitution is under way
IdleSubst == srule = None /\ svars = <<>> /\ sres = None

\* no Acl is being formatted or parsed
IdleAcl == acl = None /\ atext = None /\ aparsed = None

\* the session has not been created
IdleAlias ==
    /\ bta = None
    /\ last = Call("none", 0, None)
    /\ fresh = FALSE
    /\ nsets = 0
    /\ freed = <<>>
    /\ panicked = FALSE

TopicAliasMax(max) ==
    /\ ~panicked
    /\ bta' = TopicAliasMaxCall(bta, max)
    /\ last' = Call("topic_alias_max", max, None)
    /\ fresh' = IF max > 0 THEN TRUE ELSE fresh
    /\ nsets' = IF max > 0 THEN 0 ELSE nsets
    /\ freed' = IF max > 0 THEN <<>> ELSE freed
    /\ UNCHANGED <<panicked, notAlias>>

SetNewAlias(topic) ==
    /\ ~panicked
    /\ IsSome(bta)
    /\ fresh => nsets < MaxCalls
    /\ LET r == SetNewAliasCall(Unwrap(bta), topic)
           NotIssued(x) == r.ret = None \/ x # Unwrap(r.ret)
           stillFresh == fresh /\ topic \notin DOMAIN Unwrap(bta).map
       IN  /\ bta' = Some(r.bta)
           /\ last' = Call("set_new_alias", topic, r.ret)
           /\ panicked' = r.panic
           /\ freed' = SelectSeq(freed, NotIssued)
           /\ fresh' = stillFresh
           /\ nsets' = IF stillFresh THEN nsets + 1 ELSE 0
    /\ UNCHANGED notAlias

RemoveAlias(topic) ==
    /\ ~panicked
    /\ IsSome(bta)
    /\ LET b == Unwrap(bta)
           r == RemoveAliasCall(b, topic)
       IN  /\ bta' = Some(r.bta)
           /\ last' = Call("remove_alias", topic, None)
           /\ panicked' = r.panic
           /\ freed' = IF topic \in DOMAIN b.map
                       THEN Append(freed, b.map[topic]) ELSE freed
           /\ fresh' = FALSE
           /\ nsets' = 0
    /\ UNCHANGED notAlias

GetAlias(topic) ==
    /\ ~panicked
    /\ IsSome(bta)
    /\ last' = Call("get_alias", topic, GetAliasCall(Unwrap(bta), topic))
    /\ UNCHANGED <<bta, fresh, nsets, freed, panicked, notAlias>>

NextAlias ==
    \/ \E max \in 0..MaxAliasMax : TopicAliasMax(max)
    \/ \E topic \in Topics : SetNewAlias(topic)
    \/ \E topic \in Topics : RemoveAlias(topic)
    \/ \E topic \in Topics : GetAlias(topic)

Init == InitAlias /\ IdleMatch /\ IdleSubst /\ IdleAcl
Next == NextAlias
Spec == Init /\ [][Next]_vars

\* ------------------------------------------------- claims on BrokerAliases
SetMin(S) == CHOOSE x \in S : \A y \in S : x <= y
FreeSlots(b) == (1..b.max) \ SlabKeys(b.slab)

\* C1: the occupied pool slots other than slot 0 are exactly the aliases of the
\* forward map, each the alias of exactly one topic (no slot is occupied
\* without a topic mapped to it).
C1_SlotsAreAliases ==
    IsSome(bta) =>
        LET b == Unwrap(bta)
        IN  /\ SlabKeys(b.slab) \ {0} = MapValues(b.map)
            /\ \A t1, t2 \in DOMAIN b.map : b.map[t1] = b.map[t2] => t1 = t2

\* C2: every alias of the forward map and every alias returned by
\* set_new_alias or get_alias lies in 1..topic_alias_max, 0 is never issued,
\* and two distinct topics never hold the same alias.
C2_AliasesInRange ==
    IsSome(bta) =>
        LET b == Unwrap(bta)
        IN  /\ \A t \in DOMAIN b.map : b.map[t] \in 1..b.max
            /\ \A t1, t2 \in DOMAIN b.map : b.map[t1] = b.map[t2] => t1 = t2
            /\ (last.op \in {"set_new_alias", "get_alias"} /\ IsSome(last.ret))
                   => Unwrap(last.ret) \in 1..b.max

C2_Witness ==
    /\ IsSome(bta)
    /\ Cardinality(DOMAIN Unwrap(bta).map) >= 2
    /\ last.op = "set_new_alias"
    /\ IsSome(last.ret)
    /\ Unwrap(last.ret) = Unwrap(bta).max

\* C3: on a fresh BrokerAliases the first max set_new_alias calls on unaliased
\* topics return Some of a new value in 1..max; every further call returns
\* None without a panic, leaves the forward map as it was and leaves exactly
\* the slots 0..max occupied.
C3_FreshRunStep ==
    (fresh' /\ last'.op = "set_new_alias") =>
        LET b == Unwrap(bta)
            b2 == Unwrap(bta')
        IN  /\ ~panicked'
            /\ IF nsets' <= b.max
               THEN /\ IsSome(last'.ret)
                    /\ Unwrap(last'.ret) \in 1..b.max
                    /\ Unwrap(last'.ret) \notin MapValues(b.map)
                    /\ Cardinality(MapValues(b2.map)) = nsets'
                    /\ SlabKeys(b2.slab) = 0..nsets'
               ELSE /\ last'.ret = None
                    /\ b2.map = b.map
                    /\ SlabKeys(b2.slab) = 0..b.max

C3_ExhaustionLeavesNoResidue == [][C3_FreshRunStep]_vars

C3_Witness ==
    /\ IsSome(bta)
    /\ fresh
    /\ Unwrap(bta).max >= 2
    /\ nsets >= Unwrap(bta).max + 2
    /\ last.op = "set_new_alias"
    /\ last.ret = None

\* C4 as stated: a successful set_new_alias returns the lowest-numbered free
\* slot, whatever the order in which slots were freed.
C4_LowestFreeStep ==
    (last'.op = "set_new_alias" /\ IsSome(last'.ret)) =>
        Unwrap(last'.ret) = SetMin(FreeSlots(Unwrap(bta)))

C4_LowestFree == [][C4_LowestFreeStep]_vars

\* C4 amended: a successful set_new_alias returns a slot of 1..max that was
\* free; it is the slot freed most recently among those not issued again, and
\* the lowest-numbered free slot only when no freed slot is waiting.
C4_MostRecentlyFreedStep ==
    (last'.op = "set_new_alias" /\ IsSome(last'.ret)) =>
        LET b == Unwrap(bta)
            a == Unwrap(last'.ret)
        IN  /\ a \in FreeSlots(b)
            /\ freed # <<>> => a = freed[Len(freed)]
            /\ freed = <<>> => a = SetMin(FreeSlots(b))

C4_MostRecentlyFreed == [][C4_MostRecentlyFreedStep]_vars

C4_Witness ==
    /\ last.op = "set_new_alias"
    /\ IsSome(last.ret)
    /\ freed # <<>>
    /\ \E i \in 1..Len(freed) : freed[i] < Unwrap(last.ret)

\* C5: after topic_alias_max(max), judged by the most recent call, the session
\* holds a BrokerAliases bounded by max if max > 0 and none if max = 0.
C5_JudgedByLastCall ==
    last.op = "topic_alias_max" =>
        IF last.arg > 0
        THEN IsSome(bta) /\ Unwrap(bta).max = last.arg
        ELSE bta = None

\* ------------------------------------------------------------------ strings
\* longest rule, topic or filter string of a matches call
MaxLen == 3

StringsUpTo(alphabet, n) == UNION {[1..k -> alphabet] : k \in 0..n}

TOPIC_SEP == "/"
TOPIC_WILDCARD == "#"
TOPIC_ANY == "+"

\* the characters rules, topics and filters are drawn from
MatchChars == {"a", TOPIC_SEP, TOPIC_WILDCARD, TOPIC_ANY}

\* index of the first occurrence of character c in s, 0 if there is none
RECURSIVE FindChar(_, _, _)
FindChar(s, c, i) ==
    IF i > Len(s) THEN 0
    ELSE IF s[i] = c THEN i
    ELSE FindChar(s, c, i + 1)

\* str::split(TOPIC_SEP): the segments between separators, at least one
RECURSIVE Split(_)
Split(s) ==
    LET i == FindChar(s, TOPIC_SEP, 1)
    IN  IF i = 0 THEN <<s>>
        ELSE <<SubSeq(s, 1, i - 1)>> \o Split(SubSeq(s, i + 1, Len(s)))

\* .map(Some).chain([None])
SomeThenNone(segs) == [i \in 1..(Len(segs) + 1) |->
                          IF i <= Len(segs) THEN Some(segs[i]) ELSE None]

\* ------------------------------------------------------------------ AclRule
\* faulty variant: '#' is treated like '+', it only skips one segment
MatchLoopHashSkipsOne(tcs, rcs, i) ==
    LET n == IF Len(tcs) < Len(rcs) THEN Len(tcs) ELSE Len(rcs)
        Walk[k \in 1..(n + 1)] ==
            IF k > n THEN TRUE
            ELSE IF IsSome(tcs[k]) /\ rcs[k] = Some(<<TOPIC_WILDCARD>>) THEN Walk[k + 1]
            ELSE IF IsSome(tcs[k]) /\ rcs[k] = Some(<<TOPIC_ANY>>) THEN Walk[k + 1]
            ELSE IF tcs[k] = rcs[k] THEN Walk[k + 1]
            ELSE FALSE
    IN  Walk[i]

\* the for loop of AclRule::matches over the zipped segments, from pair i on
RECURSIVE MatchLoop(_, _, _)
MatchLoop(tcs, rcs, i) ==
    IF i > Len(tcs) \/ i > Len(rcs) THEN TRUE
    ELSE IF IsSome(tcs[i]) /\ rcs[i] = Some(<<TOPIC_WILDCARD>>) THEN TRUE
    ELSE IF IsSome(tcs[i]) /\ rcs[i] = Some(<<TOPIC_ANY>>) THEN MatchLoop(tcs, rcs, i + 1)
    ELSE IF tcs[i] = rcs[i] THEN MatchLoop(tcs, rcs, i + 1)
    ELSE FALSE

\* AclRule::matches(&self, path, _filter)
Matches(rule, path, filter) ==
    MatchLoop(SomeThenNone(Split(path)), SomeThenNone(Split(rule)), 1)

MatchesTopicCall(rule, topic) == Matches(rule, topic, FALSE)
MatchesFilterCall(rule, filter) == Matches(rule, filter, TRUE)

MatchCall(op, ret) == [op |-> op, ret |-> ret]

MatchInputs ==
    /\ mrule \in StringsUpTo(MatchChars, MaxLen)
    /\ mpath \in StringsUpTo(MatchChars, MaxLen)
    /\ mcall = None

MatchesTopic ==
    /\ mcall = None
    /\ mcall' = Some(MatchCall("matches_topic", MatchesTopicCall(mrule, mpath)))
    /\ UNCHANGED <<mrule, mpath, notMatch>>

MatchesFilter ==
    /\ mcall = None
    /\ mcall' = Some(MatchCall("matches_filter", MatchesFilterCall(mrule, mpath)))
    /\ UNCHANGED <<mrule, mpath, notMatch>>

NextMatch == MatchesTopic \/ MatchesFilter

InitMatch == MatchInputs /\ IdleAlias /\ IdleSubst /\ IdleAcl

SpecMatch == InitMatch /\ [][NextMatch]_vars

\* ------------------------------------------------------ claims on matching
\* pattern segment p matches topic segment t: equal, or p is '+'
SegMatches(p, t) == p = t \/ p = <<TOPIC_ANY>>

\* the pattern has '#' at segment i and the segments before i match the
\* topic's segments at the same positions
HashAfterMatchingPrefix(rsegs, tsegs, i) ==
    /\ i \in 1..Len(rsegs)
    /\ rsegs[i] = <<TOPIC_WILDCARD>>
    /\ Len(tsegs) >= i - 1
    /\ \A j \in 1..(i - 1) : SegMatches(rsegs[j], tsegs[j])

IsTopicCall == IsSome(mcall) /\ Unwrap(mcall).op = "matches_topic"

\* C6 as stated: a '#' pattern segment after a matching prefix makes
\* matches_topic true whatever remains on either side, zero topic segments
\* from the '#' position included.
C6_HashMatchesAnyRest ==
    IsTopicCall =>
        \A i \in 1..Len(Split(mrule)) :
            HashAfterMatchingPrefix(Split(mrule), Split(mpath), i)
                => Unwrap(mcall).ret = TRUE

\* C6 amended: a '#' pattern segment after a matching prefix makes
\* matches_topic true when the topic has a segment at the '#' position (one or
\* more topic segments from there on, any pattern segments after the '#');
\* when the topic ends right before the first '#' the result is false.
C6_HashMatchesNonEmptyRest ==
    IsTopicCall =>
        \A i \in 1..Len(Split(mrule)) :
            HashAfterMatchingPrefix(Split(mrule), Split(mpath), i) =>
                /\ Len(Split(mpath)) >= i => Unwrap(mcall).ret = TRUE
                /\ (/\ Len(Split(mpath)) = i - 1
                    /\ \A j \in 1..(i - 1) : Split(mrule)[j] # <<TOPIC_WILDCARD>>)
                       => Unwrap(mcall).ret = FALSE

C6_Witness ==
    /\ IsTopicCall
    /\ Unwrap(mcall).ret = TRUE
    /\ Len(Split(mrule)) = 2
    /\ HashAfterMatchingPrefix(Split(mrule), Split(mpath), 2)
    /\ Split(mrule)[1] = <<"a">>
    /\ Len(Split(mpath)) = 2

\* ------------------------------------------- AclRule::substitute_variables
\* longest rule string substitute_variables is called on
MaxRuleLen == 2
\* largest number of (name, value) pairs of one call
MaxVars == 2

\* the characters of the rules; "u" and "c" stand for the tokens %u and %c
RuleChars == {"u", "c", TOPIC_SEP, TOPIC_ANY}
\* variable names: the tokens
Names == {<<"u">>, <<"c">>}
\* variable values: empty, or one character (a token character or an illegal one)
Values == {<<>>} \cup {<<ch>> : ch \in {"u", "c", TOPIC_SEP, TOPIC_WILDCARD, TOPIC_ANY}}

\* Cow<'static, str>
Borrowed(str) == [repr |-> "Borrowed", s |-> str]
Owned(str) == [repr |-> "Owned", s |-> str]

\* sub occurs in s at index i
OccursAt(s, sub, i) ==
    /\ i + Len(sub) - 1 <= Len(s)
    /\ \A k \in 1..Len(sub) : s[i + k - 1] = sub[k]

\* str::contains
Contains(s, sub) == \E i \in 1..(Len(s) + 1) : OccursAt(s, sub, i)

\* str::replace: every non-overlapping occurrence, left to right; an empty
\* pattern matches before each character and at the end
RECURSIVE ReplaceFrom(_, _, _, _)
ReplaceFrom(s, from, to, i) ==
    IF from = <<>>
    THEN IF i > Len(s) THEN to
         ELSE to \o <<s[i]>> \o ReplaceFrom(s, from, to, i + 1)
    ELSE IF i > Len(s) THEN <<>>
    ELSE IF OccursAt(s, from, i)
         THEN to \o ReplaceFrom(s, from, to, i + Len(from))
         ELSE <<s[i]>> \o ReplaceFrom(s, from, to, i + 1)

Replace(s, from, to) == ReplaceFrom(s, from, to, 1)

\* [TOPIC_SEP, TOPIC_WILDCARD, TOPIC_ANY].into_iter().any(|illegal| value.contains(illegal))
HasIllegal(value) ==
    \E illegal \in {TOPIC_SEP, TOPIC_WILDCARD, TOPIC_ANY} : Contains(value, <<illegal>>)

\* faulty variant: TOPIC_ANY is missing from the illegal characters
SubstStepPlusAllowed(self, substituted, name, value) ==
    IF \E illegal \in {TOPIC_SEP, TOPIC_WILDCARD} : Contains(value, <<illegal>>)
    THEN substituted
    ELSE IF Contains(self.s, name)
         THEN Owned(Replace(substituted.s, name, value))
         ELSE substituted

\* faulty variant: the replacement is made without testing for the token
SubstStepAlwaysReplace(self, substituted, name, value) ==
    IF HasIllegal(value)
    THEN substituted
    ELSE Owned(Replace(substituted.s, name, value))

\* one iteration of the for loop of substitute_variables
SubstStep(self, substituted, name, value) ==
    IF HasIllegal(value)
    THEN substituted
    ELSE IF Contains(self.s, name)
         THEN Owned(Replace(substituted.s, name, value))
         ELSE substituted

RECURSIVE SubstLoop(_, _, _, _)
SubstLoop(self, substituted, variables, i) ==
    IF i > Len(variables) THEN substituted
    ELSE SubstLoop(self,
                   SubstStep(self, substituted, variables[i][1], variables[i][2]),
                   variables, i + 1)

\* AclRule::substitute_variables; self.clone() keeps the Cow's representation
SubstituteVariables(self, variables) == SubstLoop(self, self, variables, 1)

VarLists == UNION {[1..k -> Names \X Values] : k \in 0..MaxVars}

SubstInputs ==
    /\ srule \in {Borrowed(str) : str \in StringsUpTo(RuleChars, MaxRuleLen)}
                 \cup {Owned(str) : str \in StringsUpTo(RuleChars, MaxRuleLen)}
    /\ svars \in VarLists
    /\ sres = None

Substitute ==
    /\ sres = None
    /\ sres' = Some(SubstituteVariables(srule, svars))
    /\ UNCHANGED <<srule, svars, notSubst>>

NextSubst == Substitute

InitSubst == SubstInputs /\ IdleAlias /\ IdleMatch /\ IdleAcl

SpecSubst == InitSubst /\ [][NextSubst]_vars

\* ------------------------------------------------- claims on substitution
\* number of '/', '#' and '+' characters of a string
IllegalCount(str) ==
    Cardinality({i \in 1..Len(str) : str[i] \in {TOPIC_SEP, TOPIC_WILDCARD, TOPIC_ANY}})

LegalPair(pair) == ~HasIllegal(pair[2])
SkippedPair(pair) == HasIllegal(pair[2])
TokenInRule(pair) == Contains(srule.s, pair[1])
AppliedPair(pair) == LegalPair(pair) /\ TokenInRule(pair)

\* plain string replacement folded over the pairs, in order
RECURSIVE ReplaceAll(_, _, _)
ReplaceAll(str, pairs, i) ==
    IF i > Len(pairs) THEN str
    ELSE ReplaceAll(Replace(str, pairs[i][1], pairs[i][2]), pairs, i + 1)

\* C7: pairs whose value contains '/', '#' or '+' are skipped while the other
\* pairs of the call still substitute (the result is that of the call without
\* the skipped pairs), and the result never holds more '/', '#' or '+'
\* characters than the rule.
C7_IllegalValuesSkipped ==
    IsSome(sres) =>
        /\ Unwrap(sres).s = SubstituteVariables(srule, SelectSeq(svars, LegalPair)).s
        /\ IllegalCount(Unwrap(sres).s) <= IllegalCount(srule.s)
        /\ (\A i \in 1..Len(svars) : SkippedPair(svars[i]) \/ ~TokenInRule(svars[i]))
               => Unwrap(sres).s = srule.s

C7_Witness ==
    /\ IsSome(sres)
    /\ Len(svars) = 2
    /\ SkippedPair(svars[1]) /\ TokenInRule(svars[1])
    /\ AppliedPair(svars[2]) /\ svars[2][1] # svars[1][1]
    /\ Unwrap(sres).s # srule.s
    /\ Contains(Unwrap(sres).s, svars[1][1])

\* C8 as stated: whenever the returned string equals the original, a borrowed
\* rule is returned borrowed.
C8_UnchangedTextStaysBorrowed ==
    (IsSome(sres) /\ srule.repr = "Borrowed" /\ Unwrap(sres).s = srule.s)
        => Unwrap(sres).repr = "Borrowed"

\* C8 amended: when every pair is skipped for its value or has a token absent
\* from the rule, a borrowed rule is returned borrowed, with the same text.
C8_NoPairAppliedStaysBorrowed ==
    (/\ IsSome(sres)
     /\ srule.repr = "Borrowed"
     /\ \A i \in 1..Len(svars) : SkippedPair(svars[i]) \/ ~TokenInRule(svars[i]))
        => Unwrap(sres) = srule

C8_Witness ==
    /\ IsSome(sres)
    /\ srule.repr = "Borrowed"
    /\ Len(svars) = 2
    /\ SkippedPair(svars[1]) /\ TokenInRule(svars[1])
    /\ LegalPair(svars[2]) /\ ~TokenInRule(svars[2])
    /\ Unwrap(sres) = srule

\* C9 as stated: the result is string replacement folded, in order, over the
\* pairs whose value is free of '/', '#' and '+', each replacing the token's
\* occurrences in the current string.
C9_FoldOverLegalPairs ==
    IsSome(sres) =>
        Unwrap(sres).s = ReplaceAll(srule.s, SelectSeq(svars, LegalPair), 1)

\* What the code computes instead of the fold of C9: the fold runs over the
\* pairs whose value is legal and whose token occurs in the rule as it was
\* before the call; a token that only an earlier value introduced stays.
C9_FoldOverAppliedPairs ==
    IsSome(sres) =>
        Unwrap(sres).s = ReplaceAll(srule.s, SelectSeq(svars, AppliedPair), 1)

\* ---------------------------------------------------------------------- Acl
\* longest rule string of an Acl that is formatted and parsed
MaxAclRuleLen == 3

\* the characters of those rules: a plain one, the separator of the text
\* form and the two flag letters
AclChars == {"a", ":", "r", "w"}

AclOf(rule, read, write) == [rule |-> rule, read |-> read, write |-> write]

Ok(v) == [ok |-> TRUE, val |-> v]
Err(e) == [ok |-> FALSE, val |-> e]

\* impl Display for Acl: "{}:{}{}"
AclDisplay(e) ==
    e.rule.s \o <<":">> \o (IF e.read THEN <<"r">> ELSE <<>>)
                        \o (IF e.write THEN <<"w">> ELSE <<>>)

\* str::find(":"): index of the first ':', as an Option
FindColon(str) ==
    IF \E i \in 1..Len(str) : str[i] = ":"
    THEN Some(CHOOSE i \in 1..Len(str) :
                  str[i] = ":" /\ \A j \in 1..(i - 1) : str[j] # ":")
    ELSE None

\* str::rfind(":"): index of the last ':', as an Option
RFindColon(str) ==
    IF \E i \in 1..Len(str) : str[i] = ":"
    THEN Some(CHOOSE i \in 1..Len(str) :
                  str[i] = ":" /\ \A j \in (i + 1)..Len(str) : str[j] # ":")
    ELSE None

\* the body of from_str once the colon is found
AclSplitAt(str, colon) ==
    IF colon = None THEN Err("NoFlags")
    ELSE LET rule == SubSeq(str, 1, Unwrap(colon) - 1)
             flags == SubSeq(str, Unwrap(colon) + 1, Len(str))
         IN  Ok(AclOf(Owned(rule), Contains(flags, <<"r">>), Contains(flags, <<"w">>)))

\* faulty variant: the text is split at the first ':'
AclFromStrFirstColon(str) == AclSplitAt(str, FindColon(str))

\* impl FromStr for Acl
AclFromStr(str) == AclSplitAt(str, RFindColon(str))

\* derived PartialEq of Acl: a Cow compares by its text
AclEq(x, y) == x.rule.s = y.rule.s /\ x.read = y.read /\ x.write = y.write

AclInputs ==
    /\ acl \in {AclOf(rule, read, write) :
                   rule \in {Borrowed(str) : str \in StringsUpTo(AclChars, MaxAclRuleLen)}
                            \cup {Owned(str) : str \in StringsUpTo(AclChars, MaxAclRuleLen)},
                   read \in BOOLEAN, write \in BOOLEAN}
    /\ atext = None
    /\ aparsed = None

\* acl.to_string()
Format ==
    /\ atext = None
    /\ atext' = Some(AclDisplay(acl))
    /\ UNCHANGED <<acl, aparsed, notAcl>>

\* text.parse::<Acl>()
Parse ==
    /\ IsSome(atext)
    /\ aparsed = None
    /\ aparsed' = Some(AclFromStr(Unwrap(atext)))
    /\ UNCHANGED <<acl, atext, notAcl>>

NextAcl == Format \/ Parse

InitAcl == AclInputs /\ IdleAlias /\ IdleMatch /\ IdleSubst

SpecAcl == InitAcl /\ [][NextAcl]_vars

\* ------------------------------------------------------------- claims on Acl
\* C10: parsing the text produced by formatting an Acl succeeds and yields a
\* value equal to that Acl, also when the rule holds ':' or the letters r, w.
C10_ParseFormatRoundTrip ==
    IsSome(aparsed) =>
        /\ Unwrap(aparsed).ok
        /\ AclEq(Unwrap(aparsed).val, acl)

C10_Witness ==
    /\ IsSome(aparsed)
    /\ Unwrap(aparsed).ok
    /\ Contains(acl.rule.s, <<":">>)
    /\ Contains(acl.rule.s, <<"r">>)
    /\ acl.rule.repr = "Borrowed"
    /\ ~acl.read /\ acl.write

\* ------------------------------------------------------- parsing any text
\* longest text handed to Acl's FromStr
MaxTextLen == 4

\* a text from a configuration, not produced by Display: no Acl is held
ParseInputs ==
    /\ acl = None
    /\ atext \in {Some(str) : str \in StringsUpTo(AclChars, MaxTextLen)}
    /\ aparsed = None

NextParse == Parse

InitParse == ParseInputs /\ IdleAlias /\ IdleMatch /\ IdleSubst

SpecParse == InitParse /\ [][NextParse]_vars

\* the positions of ':' in a text
Colons(str) == {i \in 1..Len(str) : str[i] = ":"}

\* C11: parsing fails with NoFlags exactly when the text holds no ':';
\* otherwise it succeeds with rule = the text before the last ':', read = an
\* 'r' occurs after the last ':' and write = a 'w' occurs after it, whatever
\* the order of the flag characters and the other characters among them.
C11_ParseSplitsAtLastColon ==
    IsSome(aparsed) =>
        LET text == Unwrap(atext)
            res == Unwrap(aparsed)
        IN  /\ (Colons(text) = {}) <=> ~res.ok
            /\ ~res.ok => res.val = "NoFlags"
            /\ res.ok =>
                   \E i \in Colons(text) :
                       /\ \A j \in Colons(text) : j <= i
                       /\ res.val.rule.s = [k \in 1..(i - 1) |-> text[k]]
                       /\ res.val.read = (\E k \in (i + 1)..Len(text) : text[k] = "r")
                       /\ res.val.write = (\E k \in (i + 1)..Len(text) : text[k] = "w")

C11_Witness ==
    /\ acl = None
    /\ IsSome(aparsed)
    /\ Unwrap(aparsed).ok
    /\ Unwrap(atext) = <<":", ":", "w", "r">>
    /\ Unwrap(aparsed).val.rule.s = <<":">>
    /\ Unwrap(aparsed).val.read /\ Unwrap(aparsed).val.write

C11_WitnessNoFlags ==
    /\ acl = None
    /\ IsSome(aparsed)
    /\ ~Unwrap(aparsed).ok
    /\ Unwrap(atext) = <<"a", "r", "w">>

\* ------------------------------------------- claims on authorizing filters
\* concrete topics: wildcard-free names
ConcreteTopics == StringsUpTo({"a", TOPIC_SEP}, MaxLen)

IsAcceptedFilter ==
    /\ IsSome(mcall)
    /\ Unwrap(mcall).op = "matches_filter"
    /\ Unwrap(mcall).ret = TRUE

\* the filter has '#' at a segment where the rule has '+'
HashUnderPlus(rsegs, fsegs) ==
    \E j \in 1..Len(rsegs) :
        /\ j <= Len(fsegs)
        /\ rsegs[j] = <<TOPIC_ANY>>
        /\ fsegs[j] = <<TOPIC_WILDCARD>>

\* C12: a filter accepted by rule.matches_filter never covers more than the
\* rule: every concrete topic the filter matches, taken as a pattern, is
\* matched by the rule too, also for filters with '#' or '+' where the rule
\* has '+'.
C12_FilterWithinRule ==
    IsAcceptedFilter =>
        \A topic \in ConcreteTopics :
            MatchesTopicCall(mpath, topic) => MatchesTopicCall(mrule, topic)

\* What holds of the code: the filter stays within the rule unless it has '#'
\* at a segment where the rule has '+'.
C12_FilterWithinRuleUnlessHashUnderPlus ==
    (IsAcceptedFilter /\ ~HashUnderPlus(Split(mrule), Split(mpath))) =>
        \A topic \in ConcreteTopics :
            MatchesTopicCall(mpath, topic) => MatchesTopicCall(mrule, topic)

====
